---- MODULE Spec2Model ----
(***************************************************************************)
(* Model of cocos/3d/assets/mesh.ts: the Mesh asset, its deferred          *)
(* initialization of GPU buffers, RenderingMesh, merge and                 *)
(* validateMergingMesh.                                                    *)
(*                                                                         *)
(* Conventions.  An optional field (x?: T, T | null) is a sequence of      *)
(* length at most one: << >> when absent, <<v>> when present.  Object      *)
(* references to RenderingMesh and GFXBuffer objects are positive indices  *)
(* into rms and buffers; 0 is null / undefined.  Array indices stored in   *)
(* the struct (vertexBundelIndices) keep their 0-based JavaScript values.  *)
(* Every mesh of the model has a struct object of its own.  The device is  *)
(* the collaborator behind gfxDevice: of a GFXBuffer the model keeps its   *)
(* kind, the mesh and RenderingMesh it was created for, and the number of  *)
(* destroy() calls made on it; createBuffer and update may throw.          *)
(* _data is given to a mesh by assign; the _nativeAsset accessor, through  *)
(* which the asset loader reaches the same field, is not an operation of   *)
(* the model.  Spec is the state machine of the two meshes; ValidateSpec   *)
(* and DecodeSpec start from meshes that already hold a struct and apply   *)
(* validateMergingMesh, respectively the renderingMesh getter, to them.    *)
(***************************************************************************)
EXTENDS Integers, Sequences, FiniteSets, TLC

VARIABLES
    struct,         \* Mesh._struct, per mesh
    data,           \* Mesh._data: << >> (null) or <<byteLength of data.buffer>>
    initialized,    \* Mesh._initialized
    renderingMesh,  \* Mesh._renderingMesh: 0 (null) or an index into rms
    rms,            \* every RenderingMesh object constructed so far
    buffers,        \* every GFXBuffer the device has created so far
    last            \* the call made last, with what it returned or threw

vars == <<struct, data, initialized, renderingMesh, rms, buffers, last>>

(***************************************************************************)
(* Bounds of the model.                                                    *)
(***************************************************************************)
\* the device creates at most this many buffers in one behaviour
MaxBuffers == 3
\* merge is not applied when a merged byte length would exceed this
MaxLen == 14

Meshes == {"a", "b"}

(***************************************************************************)
(* enum IndexUnit and the index-unit codec                                 *)
(***************************************************************************)
UINT8 == 0
UINT16 == 1
UINT32 == 2

\* mutant: the stride of a value outside the enum is 2
getIndexUnitStride_DefaultTwo(indexUnit) ==
    CASE indexUnit = UINT8 -> 1
      [] indexUnit = UINT16 -> 2
      [] indexUnit = UINT32 -> 4
      [] OTHER -> 2

getIndexUnitStride(indexUnit) ==
    CASE indexUnit = UINT8 -> 1
      [] indexUnit = UINT16 -> 2
      [] indexUnit = UINT32 -> 4
      [] OTHER -> 1

getIndexUnitCtor(indexUnit) ==
    CASE indexUnit = UINT8 -> "Uint8Array"
      [] indexUnit = UINT16 -> "Uint16Array"
      [] indexUnit = UINT32 -> "Uint32Array"
      [] OTHER -> "Uint8Array"

\* BYTES_PER_ELEMENT of the typed arrays the code constructs
BytesPerElement(ctor) ==
    CASE ctor = "Uint8Array" -> 1
      [] ctor = "Uint16Array" -> 2
      [] ctor = "Uint32Array" -> 4
      [] ctor = "Float32Array" -> 4

\* the value of a variable holding no typed array (let ib: any = null)
NullView == [ctor |-> "null", offset |-> 0, length |-> 0]

\* new Ctor(buffer, byteOffset, length) throws a RangeError when byteOffset
\* is not a multiple of the element size or the view ends past the buffer;
\* length is ToIndex(length expression), the quotient truncated
TypedArrayThrows(ctor, byteLength, byteOffset, length) ==
    \/ byteOffset % BytesPerElement(ctor) # 0
    \/ byteOffset + length * BytesPerElement(ctor) > byteLength

TypedArray(ctor, byteOffset, length) ==
    [ctor |-> ctor, offset |-> byteOffset, length |-> length]

(***************************************************************************)
(* IBufferRange, IVertexBundle, IPrimitive, IMeshStruct                    *)
(***************************************************************************)
BufferRange(offset, length) == [offset |-> offset, length |-> length]

\* IGFXAttribute, of which this file reads the format only
Attribute(name, format) == [name |-> name, format |-> format]

VertexBundle(range, verticesCount, attributes) ==
    [data |-> range, verticesCount |-> verticesCount, attributes |-> attributes]

Indices(range, indexUnit) == [range |-> range, indexUnit |-> indexUnit]

\* geometricInfo as the loader supplies it: indices and positions are not
\* fields of it yet
GeometricInfo(doubleSided, range) ==
    [doubleSided |-> doubleSided, range |-> range,
     indices |-> << >>, positions |-> << >>]

Primitive(vertexBundelIndices, primitiveMode, indices, geometricInfo) ==
    [vertexBundelIndices |-> vertexBundelIndices, primitiveMode |-> primitiveMode,
     indices |-> indices, geometricInfo |-> geometricInfo]

Vec3(x, y, z) == [x |-> x, y |-> y, z |-> z]

MeshStruct(vertexBundles, primitives, minPosition, maxPosition) ==
    [vertexBundles |-> vertexBundles, primitives |-> primitives,
     minPosition |-> minPosition, maxPosition |-> maxPosition]

\* the struct a Mesh is constructed with
EmptyStruct == MeshStruct(<< >>, << >>, << >>, << >>)

(***************************************************************************)
(* The structs and buffers the loader hands to assign.                     *)
(***************************************************************************)
\* one bundle, one indexed primitive with geometric info, both bounds
QuadStruct ==
    MeshStruct(
        << VertexBundle(BufferRange(0, 8), 2,
                        <<Attribute("a_position", "RGB32F")>>) >>,
        << Primitive(<<0>>, "TRIANGLE_LIST",
                     << Indices(BufferRange(8, 4), UINT16) >>,
                     << GeometricInfo(<<TRUE>>, BufferRange(0, 8)) >>) >>,
        << Vec3(0, 0, 0) >>, << Vec3(1, 2, 3) >>)

\* the same layout as QuadStruct with other ranges and counts, no minPosition
TriStruct ==
    MeshStruct(
        << VertexBundle(BufferRange(0, 6), 3,
                        <<Attribute("a_position", "RGB32F")>>) >>,
        << Primitive(<<0>>, "TRIANGLE_LIST",
                     << Indices(BufferRange(6, 2), UINT16) >>, << >>) >>,
        << >>, << Vec3(0, 3, 0) >>)

\* two bundles; a primitive with indices and no vertex bundle, a primitive
\* with geometric info and no indices, and a primitive with neither
TwoBundleStruct ==
    MeshStruct(
        << VertexBundle(BufferRange(0, 6), 3,
                        <<Attribute("a_position", "RGB32F")>>),
           VertexBundle(BufferRange(6, 6), 2,
                        <<Attribute("a_texCoord", "RG32F")>>) >>,
        << Primitive(<< >>, "LINE_LIST",
                     << Indices(BufferRange(12, 4), UINT32) >>, << >>),
           Primitive(<<0, 1>>, "TRIANGLE_LIST", << >>,
                     << GeometricInfo(<< >>, BufferRange(0, 8)) >>),
           Primitive(<<1>>, "POINT_LIST", << >>, << >>) >>,
        << >>, << >>)

\* the layout of QuadStruct again, without indices
PlainStruct ==
    MeshStruct(
        << VertexBundle(BufferRange(0, 6), 2,
                        <<Attribute("a_normal", "RGB32F")>>) >>,
        << Primitive(<<0>>, "TRIANGLE_LIST", << >>, << >>) >>,
        << Vec3(-1, 5, 0) >>, << Vec3(4, 0, 5) >>)

\* a struct of two bundles and one primitive
LayoutStruct(attributes, vertexBundelIndices, prim, variant) ==
    MeshStruct(
        << VertexBundle(BufferRange(0, 6), 2 + variant, attributes),
           VertexBundle(BufferRange(6, 6), 2,
                        <<Attribute("a_texCoord", "RG32F")>>) >>,
        << Primitive(vertexBundelIndices, prim[1], prim[2], << >>) >>,
        << >>,
        IF variant = 0 THEN << >> ELSE << Vec3(1, 2, 3) >>)

\* structs that differ from one another in what validateMergingMesh reads
\* (formats, attribute counts, vertexBundelIndices, primitiveMode, indexUnit)
\* and in what it does not read (attribute names, ranges, counts, bounds)
LayoutStructs ==
    { LayoutStruct(attributes, vertexBundelIndices, prim, variant) :
        attributes \in
            { <<Attribute("a_position", "RGB32F")>>,
              <<Attribute("a_normal", "RGB32F")>>,
              <<Attribute("a_position", "RG32F")>>,
              <<Attribute("a_position", "RGB32F"), Attribute("a_color", "RGBA8")>> },
        vertexBundelIndices \in { <<0>>, <<1>>, <<0, 1>> },
        prim \in
            { <<"TRIANGLE_LIST", << >> >>,
              <<"TRIANGLE_LIST", << Indices(BufferRange(12, 4), UINT16) >> >>,
              <<"TRIANGLE_LIST", << Indices(BufferRange(12, 2), UINT16) >> >>,
              <<"TRIANGLE_LIST", << Indices(BufferRange(12, 4), UINT32) >> >>,
              <<"LINE_LIST", << Indices(BufferRange(12, 4), UINT16) >> >> },
        variant \in {0, 1} }
    \cup {QuadStruct, TriStruct, TwoBundleStruct, PlainStruct, EmptyStruct}

\* one bundle of 8 bytes and one primitive with geometric info whose indices
\* start at byte 8, with the given unit and byte length
DecodeStruct(indexUnit, length) ==
    MeshStruct(
        << VertexBundle(BufferRange(0, 8), 2,
                        <<Attribute("a_position", "RGB32F")>>) >>,
        << Primitive(<<0>>, "TRIANGLE_LIST",
                     << Indices(BufferRange(8, length), indexUnit) >>,
                     << GeometricInfo(<<FALSE>>, BufferRange(0, 8)) >>) >>,
        << >>, << >>)

\* the values an indexUnit field is given: the three of the enum, and one
\* on either side of it
IndexUnitValues == (UINT8 - 1)..(UINT32 + 1)

\* index ranges of 0 to 8 bytes, in every unit
DecodeStructs ==
    { DecodeStruct(indexUnit, length) :
        indexUnit \in IndexUnitValues, length \in 0..8 }

\* the calls of assign: the mesh, the struct, and the byteLength of the
\* ArrayBuffer behind the Uint8Array.  16 bytes hold every range of the
\* structs; 6 bytes end before the indices of TriStruct
AssignInputs ==
    { <<"a", QuadStruct, 16>>, <<"a", TriStruct, 6>>, <<"a", TwoBundleStruct, 16>>,
      <<"b", PlainStruct, 16>>, <<"b", TwoBundleStruct, 16>> }

\* the calls of merge: this, mesh, validate (a call without the third
\* argument behaves as one with false)
MergeInputs ==
    { <<"a", "b", TRUE>>, <<"a", "b", FALSE>>, <<"a", "a", FALSE>>,
      <<"b", "a", TRUE>> }

\* the calls of validateMergingMesh: this, mesh
ValidateInputs == { <<"a", "b">>, <<"b", "a">>, <<"a", "a">> }

(***************************************************************************)
(* Helpers over sequences                                                  *)
(***************************************************************************)
Range(seq) == {seq[i] : i \in 1..Len(seq)}

(***************************************************************************)
(* Deferred initialization.  One pass runs from the first createBuffer to  *)
(* new RenderingMesh or to the first throw.  The pass record P holds the   *)
(* locals of _deferredInit: err is "none" while the pass runs and the      *)
(* error's name once something threw; calls counts the device calls        *)
(* (createBuffer, update) made so far; kinds lists the buffers created;    *)
(* prims is this._struct.primitives as the pass leaves it.  base is the    *)
(* number of buffers the device had created before the pass, and failAt    *)
(* the device call of the pass that fails (0: none does).                  *)
(***************************************************************************)
NewPass(s) ==
    [err |-> "none", calls |-> 0, kinds |-> << >>,
     vertexBuffers |-> << >>, indexBuffers |-> << >>, submeshes |-> << >>,
     prims |-> s.primitives, ib |-> NullView, indexBuffer |-> 0]

RECURSIVE createVertexBuffers(_, _, _, _, _, _)
createVertexBuffers(P, vertexBundles, i, byteLength, base, failAt) ==
    IF i > Len(vertexBundles) \/ P.err # "none" THEN P
    ELSE
      LET vertexBundle == vertexBundles[i]
          id == base + Len(P.kinds) + 1
      IN
      IF P.calls + 1 = failAt
      THEN \* gfxDevice.createBuffer throws
           [P EXCEPT !.err = "DeviceError", !.calls = @ + 1]
      ELSE IF TypedArrayThrows("Uint8Array", byteLength,
                               vertexBundle.data.offset, vertexBundle.data.length)
      THEN \* new Uint8Array(data, offset, length) throws
           [P EXCEPT !.err = "RangeError", !.calls = @ + 1,
                     !.kinds = Append(@, "vertex")]
      ELSE IF P.calls + 2 = failAt
      THEN \* vertexBuffer.update throws
           [P EXCEPT !.err = "DeviceError", !.calls = @ + 2,
                     !.kinds = Append(@, "vertex")]
      ELSE createVertexBuffers(
               [P EXCEPT !.calls = @ + 2, !.kinds = Append(@, "vertex"),
                         !.vertexBuffers = Append(@, id)],
               vertexBundles, i + 1, byteLength, base, failAt)

\* mutant: no primitive is skipped
SkipsPrimitive_Never(prim) == FALSE

\* if (prim.vertexBundelIndices.length === 0) continue
SkipsPrimitive(prim) == Len(prim.vertexBundelIndices) = 0

\* mutant: the index buffer is created and filled but never pushed onto
\* indexBuffers
createIndexBuffer_NoPush(P, prim, byteLength, base, failAt) ==
    IF prim.indices = << >>
    THEN [P EXCEPT !.ib = NullView, !.indexBuffer = 0]
    ELSE
      LET indices == prim.indices[1]
          ctor == getIndexUnitCtor(indices.indexUnit)
          length == indices.range.length \div getIndexUnitStride(indices.indexUnit)
          id == base + Len(P.kinds) + 1
      IN
      IF P.calls + 1 = failAt
      THEN [P EXCEPT !.err = "DeviceError", !.calls = @ + 1]
      ELSE IF TypedArrayThrows(ctor, byteLength, indices.range.offset, length)
      THEN [P EXCEPT !.err = "RangeError", !.calls = @ + 1,
                     !.kinds = Append(@, "index")]
      ELSE IF P.calls + 2 = failAt
      THEN [P EXCEPT !.err = "DeviceError", !.calls = @ + 2,
                     !.kinds = Append(@, "index")]
      ELSE [P EXCEPT !.calls = @ + 2, !.kinds = Append(@, "index"),
                     !.ib = TypedArray(ctor, indices.range.offset, length),
                     !.indexBuffer = id]

\* the index buffer and the view ib of one primitive
createIndexBuffer(P, prim, byteLength, base, failAt) ==
    IF prim.indices = << >>
    THEN [P EXCEPT !.ib = NullView, !.indexBuffer = 0]
    ELSE
      LET indices == prim.indices[1]
          ctor == getIndexUnitCtor(indices.indexUnit)
          length == indices.range.length \div getIndexUnitStride(indices.indexUnit)
          id == base + Len(P.kinds) + 1
      IN
      IF P.calls + 1 = failAt
      THEN [P EXCEPT !.err = "DeviceError", !.calls = @ + 1]
      ELSE IF TypedArrayThrows(ctor, byteLength, indices.range.offset, length)
      THEN [P EXCEPT !.err = "RangeError", !.calls = @ + 1,
                     !.kinds = Append(@, "index"),
                     !.indexBuffers = Append(@, id)]
      ELSE IF P.calls + 2 = failAt
      THEN [P EXCEPT !.err = "DeviceError", !.calls = @ + 2,
                     !.kinds = Append(@, "index"),
                     !.indexBuffers = Append(@, id)]
      ELSE [P EXCEPT !.calls = @ + 2, !.kinds = Append(@, "index"),
                     !.indexBuffers = Append(@, id),
                     !.ib = TypedArray(ctor, indices.range.offset, length),
                     !.indexBuffer = id]

\* prim.vertexBundelIndices.map((i) => vertexBuffers[i]); an index past the
\* array yields undefined
vbReference(P, prim) ==
    [k \in 1..Len(prim.vertexBundelIndices) |->
        IF prim.vertexBundelIndices[k] < Len(P.vertexBuffers)
        THEN P.vertexBuffers[prim.vertexBundelIndices[k] + 1] ELSE 0]

\* the value geomInfo.indices is given
GeomInfoIndices(P) == P.ib

\* vertexBundle.attributes throws a TypeError when the bundle the primitive
\* names first is undefined
AttributesThrow(s, prim) ==
    /\ Len(prim.vertexBundelIndices) > 0
    /\ prim.vertexBundelIndices[1] >= Len(s.vertexBundles)

\* let gfxAttributes = []; if (prim.vertexBundelIndices.length > 0) { ... }
gfxAttributes(s, prim) ==
    IF Len(prim.vertexBundelIndices) > 0
    THEN s.vertexBundles[prim.vertexBundelIndices[1] + 1].attributes
    ELSE << >>

\* the rest of the loop body, once the index buffer is there: attributes,
\* geometric info, the submesh
createSubmesh(P, s, j, byteLength) ==
    LET prim == s.primitives[j]
        geomInfo == prim.geometricInfo
    IN
    IF P.err # "none" THEN P
    ELSE IF AttributesThrow(s, prim)
    THEN [P EXCEPT !.err = "TypeError"]
    ELSE IF geomInfo = << >>
    THEN [P EXCEPT !.submeshes = Append(@,
             [primitiveMode |-> prim.primitiveMode,
              vertexBuffers |-> vbReference(P, prim),
              indexBuffer |-> P.indexBuffer,
              attributes |-> gfxAttributes(s, prim),
              geometricInfo |-> << >>])]
    ELSE
      LET withIndices == [geomInfo[1] EXCEPT !.indices = <<GeomInfoIndices(P)>>]
          length == withIndices.range.length \div 4
          withPositions ==
              [withIndices EXCEPT !.positions =
                  <<TypedArray("Float32Array", withIndices.range.offset, length)>>]
      IN
      IF TypedArrayThrows("Float32Array", byteLength,
                          withIndices.range.offset, length)
      THEN [P EXCEPT !.err = "RangeError",
                     !.prims[j].geometricInfo = <<withIndices>>]
      ELSE [P EXCEPT !.prims[j].geometricInfo = <<withPositions>>,
                     !.submeshes = Append(@,
                         [primitiveMode |-> prim.primitiveMode,
                          vertexBuffers |-> vbReference(P, prim),
                          indexBuffer |-> P.indexBuffer,
                          attributes |-> gfxAttributes(s, prim),
                          geometricInfo |-> <<withPositions>>])]

RECURSIVE createSubmeshes(_, _, _, _, _, _)
\* for (const prim of this._struct.primitives) { ... }
createSubmeshes(P, s, j, byteLength, base, failAt) ==
    IF j > Len(s.primitives) \/ P.err # "none" THEN P
    ELSE IF SkipsPrimitive(s.primitives[j])
    THEN createSubmeshes(P, s, j + 1, byteLength, base, failAt)
    ELSE createSubmeshes(
             createSubmesh(
                 createIndexBuffer(P, s.primitives[j], byteLength, base, failAt),
                 s, j, byteLength),
             s, j + 1, byteLength, base, failAt)

\* the pass of _deferredInit over struct s and a buffer of byteLength bytes
Materialize(s, byteLength, base, failAt) ==
    createSubmeshes(
        createVertexBuffers(NewPass(s), s.vertexBundles, 1, byteLength, base, failAt),
        s, 1, byteLength, base, failAt)

\* the device calls a pass over s makes when nothing throws
DeviceCalls(s) ==
    2 * (Len(s.vertexBundles)
         + Cardinality({j \in 1..Len(s.primitives) :
               /\ ~SkipsPrimitive(s.primitives[j])
               /\ s.primitives[j].indices # << >>}))

(***************************************************************************)
(* merge and validateMergingMesh, on the two structs                       *)
(***************************************************************************)
\* mutant: the index units are not compared
validateMergingMesh_IgnoresIndexUnit(this, mesh) ==
    /\ Len(this.vertexBundles) = Len(mesh.vertexBundles)
    /\ \A i \in 1..Len(this.vertexBundles) :
          /\ Len(this.vertexBundles[i].attributes)
               = Len(mesh.vertexBundles[i].attributes)
          /\ \A j \in 1..Len(this.vertexBundles[i].attributes) :
                this.vertexBundles[i].attributes[j].format
                  = mesh.vertexBundles[i].attributes[j].format
    /\ Len(this.primitives) = Len(mesh.primitives)
    /\ \A i \in 1..Len(this.primitives) :
          LET prim == this.primitives[i]
              dstPrim == mesh.primitives[i]
          IN /\ Len(prim.vertexBundelIndices) = Len(dstPrim.vertexBundelIndices)
             /\ \A j \in 1..Len(prim.vertexBundelIndices) :
                   prim.vertexBundelIndices[j] = dstPrim.vertexBundelIndices[j]
             /\ prim.primitiveMode = dstPrim.primitiveMode

\* mutant: attribute j of a bundle is compared with the attribute j places
\* from the end of the other bundle
validateMergingMesh_ReversedFormats(this, mesh) ==
    /\ Len(this.vertexBundles) = Len(mesh.vertexBundles)
    /\ \A i \in 1..Len(this.vertexBundles) :
          /\ Len(this.vertexBundles[i].attributes)
               = Len(mesh.vertexBundles[i].attributes)
          /\ \A j \in 1..Len(this.vertexBundles[i].attributes) :
                this.vertexBundles[i].attributes[j].format
                  = mesh.vertexBundles[i].attributes[
                        Len(mesh.vertexBundles[i].attributes) + 1 - j].format
    /\ Len(this.primitives) = Len(mesh.primitives)

validateMergingMesh(this, mesh) ==
    /\ Len(this.vertexBundles) = Len(mesh.vertexBundles)
    /\ \A i \in 1..Len(this.vertexBundles) :
          /\ Len(this.vertexBundles[i].attributes)
               = Len(mesh.vertexBundles[i].attributes)
          /\ \A j \in 1..Len(this.vertexBundles[i].attributes) :
                this.vertexBundles[i].attributes[j].format
                  = mesh.vertexBundles[i].attributes[j].format
    /\ Len(this.primitives) = Len(mesh.primitives)
    /\ \A i \in 1..Len(this.primitives) :
          LET prim == this.primitives[i]
              dstPrim == mesh.primitives[i]
          IN /\ Len(prim.vertexBundelIndices) = Len(dstPrim.vertexBundelIndices)
             /\ \A j \in 1..Len(prim.vertexBundelIndices) :
                   prim.vertexBundelIndices[j] = dstPrim.vertexBundelIndices[j]
             /\ prim.primitiveMode = dstPrim.primitiveMode
             /\ (prim.indices # << >> /\ dstPrim.indices # << >>
                   => prim.indices[1].indexUnit = dstPrim.indices[1].indexUnit)

Max(x, y) == IF x >= y THEN x ELSE y
Min(x, y) == IF x <= y THEN x ELSE y

\* M is [struct, err]: this._struct as merged so far, and "none" or the
\* name of the error thrown
RECURSIVE mergeVertexBundles(_, _, _)
mergeVertexBundles(M, mesh, i) ==
    IF i > Len(M.struct.vertexBundles) \/ M.err # "none" THEN M
    ELSE IF i > Len(mesh.vertexBundles)
    THEN \* dstBundle is undefined: dstBundle.data throws
         [M EXCEPT !.err = "TypeError"]
    ELSE mergeVertexBundles(
             [M EXCEPT
                 !.struct.vertexBundles[i].data.length =
                     @ + mesh.vertexBundles[i].data.length,
                 !.struct.vertexBundles[i].verticesCount =
                     @ + mesh.vertexBundles[i].verticesCount],
             mesh, i + 1)

\* mutant: the loop over the primitives is missing
mergePrimitives_Missing(M, mesh, i) == M

RECURSIVE mergePrimitives(_, _, _)
mergePrimitives(M, mesh, i) ==
    IF i > Len(M.struct.primitives) \/ M.err # "none" THEN M
    ELSE IF M.struct.primitives[i].indices = << >>
    THEN mergePrimitives(M, mesh, i + 1)
    ELSE IF i > Len(mesh.primitives)
    THEN \* dstPrim is undefined: dstPrim.indices throws
         [M EXCEPT !.err = "TypeError"]
    ELSE IF mesh.primitives[i].indices = << >>
    THEN mergePrimitives(M, mesh, i + 1)
    ELSE mergePrimitives(
             [M EXCEPT !.struct.primitives[i].indices[1].range.length =
                           @ + mesh.primitives[i].indices[1].range.length],
             mesh, i + 1)

mergeMaxPosition(M, mesh) ==
    IF M.err = "none" /\ M.struct.maxPosition # << >> /\ mesh.maxPosition # << >>
    THEN [M EXCEPT !.struct.maxPosition =
             << Vec3(Max(@[1].x, mesh.maxPosition[1].x),
                     Max(@[1].y, mesh.maxPosition[1].y),
                     Max(@[1].z, mesh.maxPosition[1].z)) >>]
    ELSE M

\* mutant: minPosition is merged with Math.max
mergeMinPosition_WithMax(M, mesh) ==
    IF M.err = "none" /\ M.struct.minPosition # << >> /\ mesh.minPosition # << >>
    THEN [M EXCEPT !.struct.minPosition =
             << Vec3(Max(@[1].x, mesh.minPosition[1].x),
                     Max(@[1].y, mesh.minPosition[1].y),
                     Max(@[1].z, mesh.minPosition[1].z)) >>]
    ELSE M

mergeMinPosition(M, mesh) ==
    IF M.err = "none" /\ M.struct.minPosition # << >> /\ mesh.minPosition # << >>
    THEN [M EXCEPT !.struct.minPosition =
             << Vec3(Min(@[1].x, mesh.minPosition[1].x),
                     Min(@[1].y, mesh.minPosition[1].y),
                     Min(@[1].z, mesh.minPosition[1].z)) >>]
    ELSE M

\* the part of merge after the validation: this._struct as it is left,
\* and whether a TypeError ended the merge
merge(this, mesh) ==
    mergeMinPosition(
        mergeMaxPosition(
            mergePrimitives(
                mergeVertexBundles([struct |-> this, err |-> "none"], mesh, 1),
                mesh, 1),
            mesh),
        mesh)

\* the byte lengths a struct holds
Lengths(s) ==
    {s.vertexBundles[i].data.length : i \in 1..Len(s.vertexBundles)}
    \cup {s.primitives[i].indices[1].range.length :
             i \in {j \in 1..Len(s.primitives) : s.primitives[j].indices # << >>}}

(***************************************************************************)
(* The state machine: two Mesh assets and the one device                   *)
(***************************************************************************)
\* what a call leaves in last.  ran: the read went past the guard of
\* _deferredInit; err: "none" or the error thrown; ret: the RenderingMesh
\* a read returned; ok: the boolean merge or validateMergingMesh returned;
\* first: the number of buffers the device had created before the call;
\* rm: the RenderingMesh whose destroy() was called; released: the number
\* of GFXBuffer.destroy() calls the call made
Call(op, mesh) ==
    [op |-> op, mesh |-> mesh, arg |-> mesh, validate |-> FALSE, ran |-> FALSE,
     err |-> "none", ret |-> 0, ok |-> FALSE, first |-> Len(buffers), rm |-> 0,
     released |-> 0]

Init ==
    /\ struct = [m \in Meshes |-> EmptyStruct]
    /\ data = [m \in Meshes |-> << >>]
    /\ initialized = [m \in Meshes |-> FALSE]
    /\ renderingMesh = [m \in Meshes |-> 0]
    /\ rms = << >>
    /\ buffers = << >>
    /\ last = [op |-> "new", mesh |-> "a", arg |-> "a", validate |-> FALSE,
               ran |-> FALSE, err |-> "none", ret |-> 0, ok |-> FALSE,
               first |-> 0, rm |-> 0, released |-> 0]

\* the GFXBuffer objects a RenderingMesh holds
Owned(rm) == Range(rm.vertexBuffers) \cup Range(rm.indexBuffers)

\* the buffers once destroy() was called on each of ids
DestroyAll(bufs, ids) ==
    [id \in DOMAIN bufs |->
        IF id \in ids THEN [bufs[id] EXCEPT !.destroys = @ + 1] ELSE bufs[id]]

\* mutant: destroy() does not truncate its two buffer lists
Destroyed_KeepsBuffers(rm) == [rm EXCEPT !.subMeshes = << >>]

\* RenderingMesh.destroy(): the lists of the RenderingMesh afterwards
Destroyed(rm) ==
    [subMeshes |-> << >>, vertexBuffers |-> << >>, indexBuffers |-> << >>]

\* mutant: destroy() leaves the index buffers alone
RenderingMeshDestroy_VertexOnly(r) ==
    /\ buffers' = DestroyAll(buffers, Range(rms[r].vertexBuffers))
    /\ rms' = [rms EXCEPT ![r] = Destroyed(@)]

\* mutant: destroy() leaves its lists as they are
RenderingMeshDestroy_NoTruncate(r) ==
    /\ buffers' = DestroyAll(buffers, Owned(rms[r]))
    /\ rms' = rms

\* RenderingMesh.destroy() on rms[r]
RenderingMeshDestroy(r) ==
    /\ buffers' = DestroyAll(buffers, Owned(rms[r]))
    /\ rms' = [rms EXCEPT ![r] = Destroyed(@)]

\* the condition under which _tryDestroyRenderingMesh acts
HasRenderingMesh(m) == renderingMesh[m] # 0

\* mutant: the reference to the RenderingMesh is not set to null
tryDestroyRenderingMesh_KeepsMesh(m) ==
    IF HasRenderingMesh(m)
    THEN /\ RenderingMeshDestroy(renderingMesh[m])
         /\ renderingMesh' = renderingMesh
         /\ initialized' = [initialized EXCEPT ![m] = FALSE]
    ELSE UNCHANGED <<buffers, rms, renderingMesh, initialized>>

tryDestroyRenderingMesh(m) ==
    IF HasRenderingMesh(m)
    THEN /\ RenderingMeshDestroy(renderingMesh[m])
         /\ renderingMesh' = [renderingMesh EXCEPT ![m] = 0]
         /\ initialized' = [initialized EXCEPT ![m] = FALSE]
    ELSE UNCHANGED <<buffers, rms, renderingMesh, initialized>>

\* the GFXBuffer.destroy() calls _tryDestroyRenderingMesh makes
Released(m) ==
    IF HasRenderingMesh(m)
    THEN Len(rms[renderingMesh[m]].vertexBuffers)
         + Len(rms[renderingMesh[m]].indexBuffers)
    ELSE 0

\* Mesh.destroy(); the base class's destroy is outside this file
Destroy(m) ==
    /\ tryDestroyRenderingMesh(m)
    /\ last' = [Call("destroy", m) EXCEPT !.released = Released(m)]
    /\ UNCHANGED <<struct, data>>

Assign(m, s, byteLength) ==
    /\ struct' = [struct EXCEPT ![m] = s]
    /\ data' = [data EXCEPT ![m] = <<byteLength>>]
    /\ tryDestroyRenderingMesh(m)
    /\ last' = [Call("assign", m) EXCEPT !.released = Released(m)]

\* mutant: the guard looks at the cached RenderingMesh instead of the flag
AlreadyInitialized_ByMesh(m) == renderingMesh[m] # 0

\* the guard of _deferredInit
AlreadyInitialized(m) == initialized[m]

\* the GFXBuffer objects of a pass, as the device creates them
NewBuffers(m, P) ==
    [k \in 1..Len(P.kinds) |->
        [kind |-> P.kinds[k], mesh |-> m, destroys |-> 0,
         rm |-> IF P.err = "none" THEN Len(rms) + 1 ELSE 0]]

\* _deferredInit past its two early returns
deferredInit(m, failAt) ==
    LET P == Materialize(struct[m], data[m][1], Len(buffers), failAt)
    IN /\ Len(buffers) + DeviceCalls(struct[m]) \div 2 <= MaxBuffers
       /\ Len(rms) < MaxBuffers
       /\ initialized' = [initialized EXCEPT ![m] = TRUE]
       /\ buffers' = buffers \o NewBuffers(m, P)
       /\ struct' = [struct EXCEPT ![m].primitives = P.prims]
       /\ IF P.err = "none"
          THEN /\ rms' = Append(rms, [subMeshes |-> P.submeshes,
                                      vertexBuffers |-> P.vertexBuffers,
                                      indexBuffers |-> P.indexBuffers])
               /\ renderingMesh' = [renderingMesh EXCEPT ![m] = Len(rms) + 1]
          ELSE UNCHANGED <<rms, renderingMesh>>
       /\ last' = [Call("read", m) EXCEPT
                      !.ran = TRUE, !.err = P.err,
                      !.ret = IF P.err = "none" THEN Len(rms) + 1 ELSE 0]
       /\ UNCHANGED data

\* mutant: without the return for this._data === null, a mesh with no
\* buffer gets a RenderingMesh of nothing
Read_NoDataCheck(m) ==
    IF AlreadyInitialized(m)
    THEN /\ last' = [Call("read", m) EXCEPT !.ret = renderingMesh[m]]
         /\ UNCHANGED <<struct, data, initialized, renderingMesh, rms, buffers>>
    ELSE IF data[m] = << >>
    THEN /\ Len(rms) < MaxBuffers
         /\ initialized' = [initialized EXCEPT ![m] = TRUE]
         /\ rms' = Append(rms, [subMeshes |-> << >>, vertexBuffers |-> << >>,
                                indexBuffers |-> << >>])
         /\ renderingMesh' = [renderingMesh EXCEPT ![m] = Len(rms) + 1]
         /\ last' = [Call("read", m) EXCEPT !.ran = TRUE, !.ret = Len(rms) + 1]
         /\ UNCHANGED <<struct, data, buffers>>
    ELSE \E failAt \in 0..DeviceCalls(struct[m]) : deferredInit(m, failAt)

\* get renderingMesh
Read(m) ==
    IF AlreadyInitialized(m)
    THEN /\ last' = [Call("read", m) EXCEPT !.ret = renderingMesh[m]]
         /\ UNCHANGED <<struct, data, initialized, renderingMesh, rms, buffers>>
    ELSE IF data[m] = << >>
    THEN /\ initialized' = [initialized EXCEPT ![m] = TRUE]
         /\ last' = [Call("read", m) EXCEPT !.ran = TRUE, !.ret = renderingMesh[m]]
         /\ UNCHANGED <<struct, data, renderingMesh, rms, buffers>>
    ELSE \E failAt \in 0..DeviceCalls(struct[m]) : deferredInit(m, failAt)

\* destroy() called on a RenderingMesh that a read has returned
DestroyRenderingMesh(r) ==
    /\ RenderingMeshDestroy(r)
    /\ last' = [Call("rmDestroy", "a") EXCEPT
                   !.rm = r, !.released = Len(rms[r].vertexBuffers)
                                          + Len(rms[r].indexBuffers)]
    /\ UNCHANGED <<struct, data, initialized, renderingMesh>>

\* mutant: merge never validates
MergeRejects_Never(a, b, validate) == FALSE

\* if (validate !== undefined && validate) if (!this.validateMergingMesh(mesh))
MergeRejects(a, b, validate) ==
    validate /\ ~validateMergingMesh(struct[a], struct[b])

\* mutant: a merge that proceeds releases the RenderingMesh of this
Merge_Invalidates(a, b, validate) ==
    LET M == merge(struct[a], struct[b])
    IN IF MergeRejects(a, b, validate)
       THEN /\ last' = [Call("merge", a) EXCEPT !.arg = b, !.validate = validate]
            /\ UNCHANGED <<struct, data, initialized, renderingMesh, rms, buffers>>
       ELSE /\ \A n \in Lengths(M.struct) : n <= MaxLen
            /\ struct' = [struct EXCEPT ![a] = M.struct]
            /\ tryDestroyRenderingMesh(a)
            /\ last' = [Call("merge", a) EXCEPT
                           !.arg = b, !.validate = validate,
                           !.err = M.err, !.ok = (M.err = "none")]
            /\ UNCHANGED data

\* this.merge(mesh, validate) with this = mesh a and mesh = mesh b
Merge(a, b, validate) ==
    LET M == merge(struct[a], struct[b])
    IN IF MergeRejects(a, b, validate)
       THEN /\ last' = [Call("merge", a) EXCEPT !.arg = b, !.validate = validate]
            /\ UNCHANGED <<struct, data, initialized, renderingMesh, rms, buffers>>
       ELSE /\ \A n \in Lengths(M.struct) : n <= MaxLen
            /\ struct' = [struct EXCEPT ![a] = M.struct]
            /\ last' = [Call("merge", a) EXCEPT
                           !.arg = b, !.validate = validate,
                           !.err = M.err, !.ok = (M.err = "none")]
            /\ UNCHANGED <<data, initialized, renderingMesh, rms, buffers>>

\* this.validateMergingMesh(mesh)
Validate(a, b) ==
    /\ last' = [Call("validate", a) EXCEPT
                   !.arg = b, !.ok = validateMergingMesh(struct[a], struct[b])]
    /\ UNCHANGED <<struct, data, initialized, renderingMesh, rms, buffers>>

Next ==
    \/ \E i \in AssignInputs : Assign(i[1], i[2], i[3])
    \/ \E m \in Meshes : Read(m)
    \/ \E m \in Meshes : Destroy(m)
    \/ \E r \in 1..Len(rms) : DestroyRenderingMesh(r)
    \/ \E i \in MergeInputs : Merge(i[1], i[2], i[3])
    \/ \E i \in ValidateInputs : Validate(i[1], i[2])

Spec == Init /\ [][Next]_vars

(***************************************************************************)
(* validateMergingMesh on its own: the two meshes hold any two of the      *)
(* layout structs, each with a 16-byte buffer, and nothing has been read.  *)
(***************************************************************************)
ValidateInit ==
    /\ struct \in [Meshes -> LayoutStructs]
    /\ data = [m \in Meshes |-> <<16>>]
    /\ initialized = [m \in Meshes |-> FALSE]
    /\ renderingMesh = [m \in Meshes |-> 0]
    /\ rms = << >>
    /\ buffers = << >>
    /\ last = [op |-> "assign", mesh |-> "b", arg |-> "b", validate |-> FALSE,
               ran |-> FALSE, err |-> "none", ret |-> 0, ok |-> FALSE,
               first |-> 0, rm |-> 0, released |-> 0]

ValidateNext == \E i \in ValidateInputs : Validate(i[1], i[2])

ValidateSpec == ValidateInit /\ [][ValidateNext]_vars

(***************************************************************************)
(* The index-unit codec at work: mesh a holds any of the decode structs    *)
(* with a 16-byte buffer, mesh b is as constructed, and renderingMesh is   *)
(* read.                                                                   *)
(***************************************************************************)
DecodeInit ==
    /\ struct \in {[m \in Meshes |-> IF m = "a" THEN s ELSE EmptyStruct] :
                      s \in DecodeStructs}
    /\ data = [m \in Meshes |-> IF m = "a" THEN <<16>> ELSE << >>]
    /\ initialized = [m \in Meshes |-> FALSE]
    /\ renderingMesh = [m \in Meshes |-> 0]
    /\ rms = << >>
    /\ buffers = << >>
    /\ last = [op |-> "assign", mesh |-> "a", arg |-> "a", validate |-> FALSE,
               ran |-> FALSE, err |-> "none", ret |-> 0, ok |-> FALSE,
               first |-> 0, rm |-> 0, released |-> 0]

DecodeNext == \E m \in Meshes : Read(m)

DecodeSpec == DecodeInit /\ [][DecodeNext]_vars

(***************************************************************************)
(* Properties                                                              *)
(***************************************************************************)

\* C1: assign, called in any state of the mesh, resets the materialized
\* flag, so that the read of renderingMesh that follows it goes through
\* deferred initialization for the new struct and buffer and returns the
\* RenderingMesh built from them.
C1_AssignResetsFlag ==
    [][ /\ (last'.op = "assign" => ~initialized'[last'.mesh])
        /\ (last.op = "assign" /\ last'.op = "read" /\ last'.mesh = last.mesh
              => last'.ran /\ (last'.err = "none" => last'.ret # 0)) ]_vars

C3_OnlyCurrentAlive ==
    \A id \in 1..Len(buffers) :
        buffers[id].rm # 0 /\ buffers[id].destroys = 0
          => /\ renderingMesh[buffers[id].mesh] = buffers[id].rm
             /\ id \in Owned(rms[buffers[id].rm])

\* C3: assign and destroy on a mesh that caches a RenderingMesh call
\* destroy() on every vertex buffer and every index buffer it holds and
\* leave the mesh with no cached RenderingMesh; and in every state the
\* buffers of completed passes that are not destroyed are those of the
\* meshes' current RenderingMesh.
C3_ReleasesEveryBuffer ==
    [][ /\ \A m \in Meshes :
              last'.op \in {"assign", "destroy"} /\ last'.mesh = m
              /\ renderingMesh[m] # 0
                => /\ renderingMesh'[m] = 0
                   /\ \A id \in Owned(rms[renderingMesh[m]]) :
                         buffers'[id].destroys >= 1
        /\ C3_OnlyCurrentAlive' ]_vars

\* assign released a RenderingMesh with a vertex and an index buffer
C3_Witness ==
    /\ last.op = "assign"
    /\ \E v, i \in 1..Len(buffers) :
          /\ buffers[v].kind = "vertex" /\ buffers[i].kind = "index"
          /\ buffers[v].mesh = last.mesh /\ buffers[i].mesh = last.mesh
          /\ buffers[v].rm # 0 /\ buffers[i].rm = buffers[v].rm
          /\ buffers[v].destroys = 1 /\ buffers[i].destroys = 1

\* C4: when createBuffer or update fails during materialization, the read
\* throws, no RenderingMesh is produced, and every buffer the pass had
\* created has been destroyed.
C4_NoLeakOnDeviceError ==
    last.op = "read" /\ last.err = "DeviceError"
      => /\ last.ret = 0
         /\ renderingMesh[last.mesh] = 0
         /\ \A id \in (last.first + 1)..Len(buffers) : buffers[id].destroys >= 1

\* a vertex-bundle, index or geometric-info range of s ends past the buffer
OutOfRange(s, byteLength) ==
    \/ \E i \in 1..Len(s.vertexBundles) :
          s.vertexBundles[i].data.offset + s.vertexBundles[i].data.length
            > byteLength
    \/ \E j \in 1..Len(s.primitives) :
          \/ /\ s.primitives[j].indices # << >>
             /\ s.primitives[j].indices[1].range.offset
                  + s.primitives[j].indices[1].range.length > byteLength
          \/ /\ s.primitives[j].geometricInfo # << >>
             /\ s.primitives[j].geometricInfo[1].range.offset
                  + s.primitives[j].geometricInfo[1].range.length > byteLength

\* C5: materializing a struct with a range that ends past the buffer throws,
\* returns no RenderingMesh and has created no buffer (stated for the
\* passes in which no device call fails).
C5_LayoutErrorAllocatesNothing ==
    (/\ last.op = "read" /\ last.ran /\ last.err # "DeviceError"
     /\ data[last.mesh] # << >>
     /\ OutOfRange(struct[last.mesh], data[last.mesh][1]))
      => /\ last.err # "none"
         /\ last.ret = 0
         /\ Len(buffers) = last.first

\* the primitives that name at least one vertex bundle, in their order
KeptPrimitives(prims) ==
    SelectSeq(prims, LAMBDA prim : Len(prim.vertexBundelIndices) # 0)

\* C6: the RenderingMesh a materialization returns has one submesh for each
\* primitive with a non-empty vertexBundelIndices, in the order of the
\* primitives, with that primitive's primitiveMode and one vertex buffer
\* for each bundle it names, and no submesh for the other primitives.
C6_SubmeshPerRenderablePrimitive ==
    last.op = "read" /\ last.ran /\ last.ret # 0
      => LET subMeshes == rms[last.ret].subMeshes
             kept == KeptPrimitives(struct[last.mesh].primitives)
         IN /\ Len(subMeshes) = Len(kept)
            /\ \A k \in 1..Len(kept) :
                  /\ subMeshes[k].primitiveMode = kept[k].primitiveMode
                  /\ Len(subMeshes[k].vertexBuffers)
                       = Len(kept[k].vertexBundelIndices)

\* a struct with three primitives of three modes, the first without vertex
\* bundles, was materialized into two submeshes
C6_Witness ==
    /\ last.op = "read" /\ last.ran /\ last.ret # 0
    /\ Len(struct[last.mesh].primitives) = 3
    /\ Len(struct[last.mesh].primitives[1].vertexBundelIndices) = 0
    /\ Len(rms[last.ret].subMeshes) = 2
    /\ rms[last.ret].subMeshes[1].primitiveMode = "TRIANGLE_LIST"
    /\ rms[last.ret].subMeshes[2].primitiveMode = "POINT_LIST"

\* the number of primitives of s with indices, and of those among them
\* that name a vertex bundle
IndexedPrimitives(s) ==
    Cardinality({j \in 1..Len(s.primitives) : s.primitives[j].indices # << >>})

IndexedRenderablePrimitives(s) ==
    Cardinality({j \in 1..Len(s.primitives) :
        /\ s.primitives[j].indices # << >>
        /\ Len(s.primitives[j].vertexBundelIndices) # 0})

\* C7 as stated: a materialized RenderingMesh holds one vertex buffer for
\* each vertex bundle and one index buffer for each primitive with indices.
C7_IndexBufferPerIndexedPrimitive ==
    last.op = "read" /\ last.ran /\ last.ret # 0
      => /\ Len(rms[last.ret].vertexBuffers)
              = Len(struct[last.mesh].vertexBundles)
         /\ Len(rms[last.ret].indexBuffers)
              = IndexedPrimitives(struct[last.mesh])

\* C7 as amended: a materialized RenderingMesh holds one vertex buffer for
\* each vertex bundle and one index buffer for each primitive that has
\* indices and a non-empty vertexBundelIndices.
C7_BufferCounts ==
    last.op = "read" /\ last.ran /\ last.ret # 0
      => /\ Len(rms[last.ret].vertexBuffers)
              = Len(struct[last.mesh].vertexBundles)
         /\ Len(rms[last.ret].indexBuffers)
              = IndexedRenderablePrimitives(struct[last.mesh])

\* a struct of two bundles whose only primitive with indices has an empty
\* vertexBundelIndices was materialized: two vertex buffers, no index buffer
C7_Witness ==
    /\ last.op = "read" /\ last.ran /\ last.ret # 0
    /\ IndexedPrimitives(struct[last.mesh]) = 1
    /\ IndexedRenderablePrimitives(struct[last.mesh]) = 0
    /\ Len(rms[last.ret].vertexBuffers) = 2
    /\ Len(rms[last.ret].indexBuffers) = 0

\* C8: RenderingMesh.destroy() calls destroy() once on every vertex buffer
\* and every index buffer the RenderingMesh holds and on no other buffer,
\* throws nothing, and leaves the three lists empty; called on a
\* RenderingMesh that was destroyed before, it calls destroy() on nothing.
C8_DestroyExhaustiveIdempotent ==
    [][ last'.op = "rmDestroy"
          => LET r == last'.rm
                 held == Range(rms[r].vertexBuffers) \cup Range(rms[r].indexBuffers)
             IN /\ last'.err = "none"
                /\ \A id \in 1..Len(buffers) :
                      buffers'[id].destroys
                        = buffers[id].destroys + (IF id \in held THEN 1 ELSE 0)
                /\ rms'[r].subMeshes = << >>
                /\ rms'[r].vertexBuffers = << >>
                /\ rms'[r].indexBuffers = << >>
                /\ (rms[r].vertexBuffers = << >> /\ rms[r].indexBuffers = << >>
                      => buffers' = buffers) ]_vars

\* destroy() was called on a RenderingMesh whose buffers had been destroyed
\* already, each of them once
C8_Witness ==
    /\ last.op = "rmDestroy"
    /\ last.released = 0
    /\ \E id \in 1..Len(buffers) : buffers[id].rm = last.rm
    /\ \A id \in 1..Len(buffers) :
          buffers[id].rm = last.rm => buffers[id].destroys = 1

\* C9: merge with validate = true on two structs that validateMergingMesh
\* rejects returns false, throws nothing, and leaves both structs as they
\* were.
C9_RejectedMergeChangesNothing ==
    [][ (/\ last'.op = "merge"
         /\ last'.validate
         /\ ~validateMergingMesh(struct[last'.mesh], struct[last'.arg]))
          => /\ ~last'.ok
             /\ last'.err = "none"
             /\ struct' = struct ]_vars

\* a rejected merge of a struct of two bundles with a struct of one
C9_Witness ==
    /\ last.op = "merge" /\ last.validate /\ ~last.ok
    /\ Len(struct[last.mesh].vertexBundles) = 2
    /\ Len(struct[last.arg].vertexBundles) = 1

\* new is old with mesh merged into it: lengths and counts added, the
\* indices length added where both primitives have indices, every offset
\* and the indices of the other primitives as they were
MergedFrom(old, mesh, new) ==
    /\ Len(new.vertexBundles) = Len(old.vertexBundles)
    /\ \A i \in 1..Len(old.vertexBundles) :
          /\ new.vertexBundles[i].data.length
               = old.vertexBundles[i].data.length + mesh.vertexBundles[i].data.length
          /\ new.vertexBundles[i].verticesCount
               = old.vertexBundles[i].verticesCount + mesh.vertexBundles[i].verticesCount
          /\ new.vertexBundles[i].data.offset = old.vertexBundles[i].data.offset
    /\ Len(new.primitives) = Len(old.primitives)
    /\ \A i \in 1..Len(old.primitives) :
          /\ IF old.primitives[i].indices # << >> /\ mesh.primitives[i].indices # << >>
             THEN /\ new.primitives[i].indices # << >>
                  /\ new.primitives[i].indices[1].range.length
                       = old.primitives[i].indices[1].range.length
                         + mesh.primitives[i].indices[1].range.length
                  /\ new.primitives[i].indices[1].range.offset
                       = old.primitives[i].indices[1].range.offset
             ELSE new.primitives[i].indices = old.primitives[i].indices
          /\ new.primitives[i].geometricInfo = old.primitives[i].geometricInfo

\* C10 as stated: merge(a, b) of structurally compatible a and b returns
\* true, adds b's lengths and counts into a's, changes no offset of a and
\* nothing of b's struct.
C10_MergeAddsLengths ==
    [][ (/\ last'.op = "merge"
         /\ validateMergingMesh(struct[last'.mesh], struct[last'.arg]))
          => /\ last'.ok
             /\ MergedFrom(struct[last'.mesh], struct[last'.arg],
                           struct'[last'.mesh])
             /\ struct'[last'.arg] = struct[last'.arg] ]_vars

\* C10 as amended: the same, for two meshes a and b that are not the same
\* mesh.
C10_MergeOfDistinctAddsLengths ==
    [][ (/\ last'.op = "merge"
         /\ last'.mesh # last'.arg
         /\ validateMergingMesh(struct[last'.mesh], struct[last'.arg]))
          => /\ last'.ok
             /\ MergedFrom(struct[last'.mesh], struct[last'.arg],
                           struct'[last'.mesh])
             /\ struct'[last'.arg] = struct[last'.arg] ]_vars

\* QuadStruct (8 bytes, 2 vertices, 4 bytes of indices) after a merge with
\* PlainStruct (6 bytes, 2 vertices, no indices) held by the other mesh
C10_Witness ==
    /\ last.op = "merge" /\ last.ok /\ last.mesh # last.arg
    /\ struct[last.arg] = PlainStruct
    /\ Len(struct[last.mesh].vertexBundles) = 1
    /\ struct[last.mesh].vertexBundles[1].data.length = 14
    /\ struct[last.mesh].vertexBundles[1].verticesCount = 4
    /\ struct[last.mesh].primitives[1].indices # << >>
    /\ struct[last.mesh].primitives[1].indices[1].range.length = 4

\* the larger and the smaller of two numbers, written without the model's
\* Max and Min
Larger(x, y) == CHOOSE z \in {x, y} : z >= x /\ z >= y
Smaller(x, y) == CHOOSE z \in {x, y} : z <= x /\ z <= y

\* C11: after a merge that returns true, this.maxPosition is the
\* component-wise maximum and this.minPosition the component-wise minimum
\* of its previous value and the other mesh's value when both meshes have
\* the field, and is left as it was when either of them lacks it.
C11_BoundingBoxMerge ==
    [][ last'.op = "merge" /\ last'.ok
          => LET old == struct[last'.mesh]
                 mesh == struct[last'.arg]
                 new == struct'[last'.mesh]
             IN /\ IF old.maxPosition # << >> /\ mesh.maxPosition # << >>
                   THEN new.maxPosition =
                          << [x |-> Larger(old.maxPosition[1].x, mesh.maxPosition[1].x),
                              y |-> Larger(old.maxPosition[1].y, mesh.maxPosition[1].y),
                              z |-> Larger(old.maxPosition[1].z, mesh.maxPosition[1].z)] >>
                   ELSE new.maxPosition = old.maxPosition
                /\ IF old.minPosition # << >> /\ mesh.minPosition # << >>
                   THEN new.minPosition =
                          << [x |-> Smaller(old.minPosition[1].x, mesh.minPosition[1].x),
                              y |-> Smaller(old.minPosition[1].y, mesh.minPosition[1].y),
                              z |-> Smaller(old.minPosition[1].z, mesh.minPosition[1].z)] >>
                   ELSE new.minPosition = old.minPosition ]_vars

\* max (1,2,3) and min (0,0,0) merged with max (4,0,5) and min (-1,5,0)
C11_Witness ==
    /\ last.op = "merge" /\ last.ok
    /\ struct[last.arg].maxPosition = << Vec3(4, 0, 5) >>
    /\ struct[last.arg].minPosition = << Vec3(-1, 5, 0) >>
    /\ struct[last.mesh].maxPosition = << Vec3(4, 2, 5) >>
    /\ struct[last.mesh].minPosition = << Vec3(-1, 0, 0) >>

\* per bundle the formats of its attributes in order; per primitive its
\* vertexBundelIndices and primitiveMode
Formats(s) ==
    [i \in 1..Len(s.vertexBundles) |->
        [j \in 1..Len(s.vertexBundles[i].attributes) |->
            s.vertexBundles[i].attributes[j].format]]

Topology(s) ==
    [i \in 1..Len(s.primitives) |->
        <<s.primitives[i].vertexBundelIndices, s.primitives[i].primitiveMode>>]

\* where primitive i of both structs has indices, the index units are equal
IndexUnitsAgree(a, b) ==
    \A i \in 1..Len(a.primitives) :
        a.primitives[i].indices # << >> /\ b.primitives[i].indices # << >>
          => a.primitives[i].indices[1].indexUnit
               = b.primitives[i].indices[1].indexUnit

\* C12: validateMergingMesh(a, b) returns true if and only if a and b have
\* the same number of bundles with the same attribute formats in order, the
\* same number of primitives with the same vertexBundelIndices and
\* primitiveMode, and equal index units wherever both primitives have
\* indices; ranges, counts, attribute names and bounds play no part.
C12_ValidateIffSameLayout ==
    last.op = "validate"
      => last.ok = (/\ Formats(struct[last.mesh]) = Formats(struct[last.arg])
                    /\ Topology(struct[last.mesh]) = Topology(struct[last.arg])
                    /\ IndexUnitsAgree(struct[last.mesh], struct[last.arg]))

\* true was returned for two structs that differ in an attribute name, a
\* vertex count, an indices length and the presence of maxPosition
C12_Witness ==
    /\ last.op = "validate" /\ last.ok /\ last.mesh # last.arg
    /\ Len(struct[last.mesh].vertexBundles) = 2
    /\ Len(struct[last.mesh].primitives) = 1
    /\ struct[last.mesh].vertexBundles[1].attributes[1].name
         # struct[last.arg].vertexBundles[1].attributes[1].name
    /\ struct[last.mesh].vertexBundles[1].verticesCount
         # struct[last.arg].vertexBundles[1].verticesCount
    /\ struct[last.mesh].maxPosition # struct[last.arg].maxPosition
    /\ struct[last.mesh].primitives[1].indices # << >>
    /\ struct[last.arg].primitives[1].indices # << >>
    /\ struct[last.mesh].primitives[1].indices[1].range.length
         # struct[last.arg].primitives[1].indices[1].range.length

\* C13: validateMergingMesh(a, a) returns true for every struct a.
C13_ValidateReflexive ==
    last.op = "validate" /\ last.mesh = last.arg => last.ok

\* a mesh whose first bundle has two attributes of different formats and
\* whose primitive has indices was validated against itself
C13_Witness ==
    /\ last.op = "validate" /\ last.mesh = last.arg /\ last.ok
    /\ Len(struct[last.mesh].vertexBundles) = 2
    /\ Len(struct[last.mesh].vertexBundles[1].attributes) = 2
    /\ struct[last.mesh].primitives[1].indices # << >>

StrideOfUnit(indexUnit) ==
    IF indexUnit = UINT16 THEN 2 ELSE IF indexUnit = UINT32 THEN 4 ELSE 1

\* C15: the stride of an index unit is 1 for UINT8, 2 for UINT16, 4 for
\* UINT32 and 1 for a value outside the enum; and the index view decoded
\* for a primitive has indices.range.length / stride elements (the integer
\* part of the quotient when the stride does not divide the length), each
\* of them stride bytes wide.
C15_StrideAndViewLength ==
    /\ \A indexUnit \in IndexUnitValues :
          getIndexUnitStride(indexUnit) = StrideOfUnit(indexUnit)
    /\ last.op = "read" /\ last.ran /\ last.ret # 0
         => LET subMeshes == rms[last.ret].subMeshes
                kept == KeptPrimitives(struct[last.mesh].primitives)
            IN \A k \in 1..Len(subMeshes) :
                  kept[k].indices # << >> /\ subMeshes[k].geometricInfo # << >>
                    => LET view == subMeshes[k].geometricInfo[1].indices[1]
                           stride == StrideOfUnit(kept[k].indices[1].indexUnit)
                       IN /\ view.length
                               = kept[k].indices[1].range.length \div stride
                          /\ view.ctor # "null"
                          /\ BytesPerElement(view.ctor) = stride

\* 8 bytes of indices in a unit outside the enum were decoded as 8 elements
\* of one byte
C15_Witness ==
    /\ last.op = "read" /\ last.ran /\ last.ret # 0
    /\ Len(struct[last.mesh].primitives) = 1
    /\ struct[last.mesh].primitives[1].indices # << >>
    /\ struct[last.mesh].primitives[1].indices[1].indexUnit = UINT32 + 1
    /\ struct[last.mesh].primitives[1].indices[1].range.length = 8
    /\ rms[last.ret].subMeshes[1].geometricInfo[1].indices[1].length = 8
    /\ rms[last.ret].subMeshes[1].geometricInfo[1].indices[1].ctor = "Uint8Array"

\* C16: the submesh of a primitive with geometricInfo and a non-empty
\* vertexBundelIndices carries geometric info whose indices is a view and
\* not null: the view decoded for the index buffer when the primitive has
\* indices, a view decoded for the purpose when it has none; whose
\* positions has geometricInfo.range.length / 4 elements; and whose
\* doubleSided is the primitive's.
C16_GeometricInfoHasIndexView ==
    last.op = "read" /\ last.ran /\ last.ret # 0
      => LET subMeshes == rms[last.ret].subMeshes
             kept == KeptPrimitives(struct[last.mesh].primitives)
         IN \A k \in 1..Len(subMeshes) :
               kept[k].geometricInfo # << >>
                 => /\ subMeshes[k].geometricInfo # << >>
                    /\ LET info == subMeshes[k].geometricInfo[1]
                       IN /\ info.indices # << >>
                          /\ info.indices[1] # NullView
                          /\ kept[k].indices # << >>
                               => info.indices[1] =
                                    TypedArray(
                                      getIndexUnitCtor(kept[k].indices[1].indexUnit),
                                      kept[k].indices[1].range.offset,
                                      kept[k].indices[1].range.length
                                        \div getIndexUnitStride(
                                               kept[k].indices[1].indexUnit))
                          /\ info.positions # << >>
                          /\ info.positions[1].ctor = "Float32Array"
                          /\ info.positions[1].length
                               = kept[k].geometricInfo[1].range.length \div 4
                          /\ info.doubleSided = kept[k].geometricInfo[1].doubleSided

\* C17: a read of renderingMesh leaves the struct of every mesh as it was.
C17_ReadLeavesStruct ==
    [][ last'.op = "read" => struct' = struct ]_vars

\* C18: merge and validateMergingMesh, whatever they return or throw and
\* whether or not the meshes are materialized, create and destroy no
\* buffer and leave the byte buffers, the flags, the cached RenderingMesh
\* of both meshes and every RenderingMesh object as they were; and the read
\* of renderingMesh that follows a merge on a mesh with a cached
\* RenderingMesh returns that RenderingMesh, unchanged.
C18_MergeTouchesOnlyStruct ==
    [][ /\ last'.op \in {"merge", "validate"}
          => /\ buffers' = buffers
             /\ data' = data
             /\ initialized' = initialized
             /\ renderingMesh' = renderingMesh
             /\ rms' = rms
        /\ (/\ last.op = "merge"
            /\ last'.op = "read"
            /\ last'.mesh \in {last.mesh, last.arg}
            /\ renderingMesh[last'.mesh] # 0)
          => /\ last'.ret = renderingMesh[last'.mesh]
             /\ ~last'.ran
             /\ rms' = rms
             /\ buffers' = buffers ]_vars

\* a mesh was materialized with 4 bytes of 16-bit indices (a view of 2
\* elements), a merge then grew its indices to 8 bytes, and the read after
\* it returned the RenderingMesh of before, its buffers alive
C18_Witness ==
    /\ last.op = "read" /\ ~last.ran /\ last.ret # 0
    /\ Len(struct[last.mesh].primitives) = 1
    /\ struct[last.mesh].primitives[1].indices # << >>
    /\ struct[last.mesh].primitives[1].indices[1].range.length = 8
    /\ Len(rms[last.ret].subMeshes) = 1
    /\ rms[last.ret].subMeshes[1].geometricInfo # << >>
    /\ rms[last.ret].subMeshes[1].geometricInfo[1].indices[1].length = 2
    /\ \A id \in Owned(rms[last.ret]) : buffers[id].destroys = 0

\* C19: in every reachable state, a mesh that caches a RenderingMesh has
\* its initialized flag set.
C19_CachedImpliesInitialized ==
    \A m \in Meshes : renderingMesh[m] # 0 => initialized[m]

\* a materialization has just thrown on one mesh, which is left with the
\* flag set and nothing cached, while the other mesh caches a RenderingMesh
C19_Witness ==
    /\ last.op = "read" /\ last.ran /\ last.err # "none"
    /\ initialized[last.mesh] /\ renderingMesh[last.mesh] = 0
    /\ \E m \in Meshes : renderingMesh[m] # 0 /\ initialized[m]

\* the RenderingMesh whose destroy() the step to the next state calls, 0
\* if it calls none
ReleasedBy ==
    IF last'.op = "rmDestroy" THEN last'.rm
    ELSE IF last'.op \in {"assign", "destroy"} THEN renderingMesh[last'.mesh]
    ELSE 0

\* C20: whatever the sequence of assign, read, destroy and
\* RenderingMesh.destroy calls, a buffer is created with no destroy() call
\* on it, a step calls destroy() on a buffer only if none was called on it
\* before, once, and only if the buffer was created for the RenderingMesh
\* that the step releases.
C20_DestroyedAtMostOnce ==
    [][ /\ \A id \in 1..Len(buffers) :
              buffers'[id].destroys # buffers[id].destroys
                => /\ buffers[id].destroys = 0
                   /\ buffers'[id].destroys = 1
                   /\ buffers[id].rm # 0
                   /\ buffers[id].rm = ReleasedBy
        /\ \A id \in (Len(buffers) + 1)..Len(buffers') :
              buffers'[id].destroys = 0 ]_vars

\* Mesh.destroy released the two buffers of one RenderingMesh, once each,
\* while the other mesh keeps a RenderingMesh whose buffer is alive
C20_Witness ==
    /\ last.op = "destroy" /\ last.released = 2
    /\ Cardinality({id \in 1..Len(buffers) :
          buffers[id].mesh = last.mesh /\ buffers[id].destroys = 1}) = 2
    /\ \E m \in Meshes :
          /\ m # last.mesh
          /\ renderingMesh[m] # 0
          /\ Owned(rms[renderingMesh[m]]) # {}
          /\ \A id \in Owned(rms[renderingMesh[m]]) : buffers[id].destroys = 0

====
